---------------------------- MODULE Spec2Model ----------------------------
(***************************************************************************)
(* A model of unc_text (src/src/unc_text.cpp): the code-point buffer       *)
(* m_chars, its lazily rebuilt display form m_logtext guarded by m_logok,  *)
(* the mutators, the comparator and the search / replace routines.         *)
(*                                                                         *)
(* An unc_text object is the record [m_chars, m_logtext, m_logok]; every   *)
(* method is an operator from the object (and its arguments) to the object *)
(* after the call, or to the value returned.  Indexes are 0-based as in    *)
(* the source; TLA+ sequences are 1-based, hence the "+ 1" in the reads.   *)
(***************************************************************************)
EXTENDS Integers, Sequences, FiniteSets

VARIABLES
    m_chars,      \* unc_text::m_chars, the code points
    m_logtext,    \* unc_text::m_logtext, the display bytes
    m_logok,      \* unc_text::m_logok, whether m_logtext is current
    args,         \* the arguments of the call under way (and, as before,
                  \* the buffer as a call sequence found it)
    pc,           \* the position of the caller
    loc,          \* locals: fidx and rcnt of replace(), the length inserted
    ret           \* the value the call returned

vars == <<m_chars, m_logtext, m_logok, args, pc, loc, ret>>

---------------------------------------------------------------------------
(* Bounds of the model.                                                    *)

\* The longest buffer drawn as an input or kept by a mutator.
MaxLen == 3

\* The longest buffer drawn for a single call of set, find, rfind, replace,
\* insert or erase.
MaxText == 4

\* The longest search pattern (const char *) and replacement drawn.
MaxPat == 2

\* The iterations of replace()'s loop the model follows.
MaxIter == 2 * MaxText + 4

\* size_t is 64 bits wide; TLC's integers are 32 bits wide, so the modulus
\* of the unsigned arithmetic is scaled down.  Every wrapped value is only
\* ever compared with indexes below 4 * MaxText, which it exceeds with
\* either modulus.
SizeModulus == 2 ^ 30

SizeT(x) == x % SizeModulus

Texts(S, n) == UNION { [1..k -> S] : k \in 0..n }

\* '\n', '\r' and 'a'
LogChars == {10, 13, 97}

\* 'a' and 'b'
SearchChars == {97, 98}

\* 'A', 'a' and 'b'
CompareChars == {65, 97, 98}

SetMin(S) == CHOOSE x \in S : \A y \in S : x <= y

SetMax(S) == CHOOSE x \in S : \A y \in S : x >= y

---------------------------------------------------------------------------
(* std::vector<int>, as the methods use it.                                *)

\* v.resize(n): truncates, or pads with value-initialised (zero) elements
VectorResize(v, n) == [i \in 1..n |-> IF i <= Len(v) THEN v[i] ELSE 0]

\* v.insert(v.begin() + idx, r.begin(), r.end())
VectorInsert(v, idx, r) == SubSeq(v, 1, idx) \o r \o SubSeq(v, idx + 1, Len(v))

\* VectorErase with the range one element short
VectorEraseOneLess(v, idx, len) ==
    SubSeq(v, 1, idx) \o SubSeq(v, idx + len, Len(v))

\* v.erase(v.begin() + idx, v.begin() + idx + len)
VectorErase(v, idx, len) == SubSeq(v, 1, idx) \o SubSeq(v, idx + len + 1, Len(v))

---------------------------------------------------------------------------
(* The external collaborators.                                             *)

\* encode_utf8(ch, res): the bytes appended to res
encode_utf8(ch) ==
    IF ch < 0 THEN <<>>
    ELSE IF ch < 128 THEN <<ch>>
    ELSE IF ch < 2048 THEN <<192 + (ch \div 64), 128 + (ch % 64)>>
    ELSE IF ch < 65536 THEN
        <<224 + (ch \div 4096), 128 + ((ch \div 64) % 64), 128 + (ch % 64)>>
    ELSE <<240 + (ch \div 262144), 128 + ((ch \div 4096) % 64),
           128 + ((ch \div 64) % 64), 128 + (ch % 64)>>

\* unc_tolower(ch)
unc_tolower(ch) == IF ch >= 65 /\ ch <= 90 THEN ch + 32 ELSE ch

---------------------------------------------------------------------------
(* The object.                                                             *)

This == [m_chars |-> m_chars, m_logtext |-> m_logtext, m_logok |-> m_logok]

Become(t) ==
    /\ m_chars' = t.m_chars
    /\ m_logtext' = t.m_logtext
    /\ m_logok' = t.m_logok

\* unc_text(): an empty buffer, nothing cached
NewText(chars) == [m_chars |-> chars, m_logtext |-> <<>>, m_logok |-> FALSE]

fix_len_idx(size, idx, len) ==
    IF idx >= size THEN 0
    ELSE LET left == size - idx
         IN  IF len > left THEN left ELSE len

\* the loop of update_logtext over m_chars
RECURSIVE logtext_of(_)
logtext_of(chars) ==
    IF chars = <<>> THEN <<>>
    ELSE LET m_char == IF Head(chars) = 10 THEN 9252
                       ELSE IF Head(chars) = 13 THEN 9229
                       ELSE Head(chars)
         IN  encode_utf8(m_char) \o logtext_of(Tail(chars))

update_logtext(t) ==
    IF t.m_logok THEN t
    ELSE [t EXCEPT !.m_logtext = Append(logtext_of(t.m_chars), 0),
                   !.m_logok = TRUE]

\* c_str(): the object after the call; the bytes returned are its m_logtext
c_str(t) == update_logtext(t)

set_ch(t, ch) == [t EXCEPT !.m_chars = <<ch>>, !.m_logok = FALSE]

set_ref(t, r) == [t EXCEPT !.m_chars = r, !.m_logok = FALSE]

\* the copy loop of set(ref, idx, len) and of set(data, idx, len)
CopyRange(dst, src, idx, len) ==
    [i \in 1..Len(dst) |-> IF i <= len THEN src[idx + i] ELSE dst[i]]

set_ref_range(t, r, idx, len) ==
    IF len = Len(r)
    THEN [t EXCEPT !.m_chars = r, !.m_logok = FALSE]
    ELSE [t EXCEPT !.m_chars = CopyRange(VectorResize(t.m_chars, len), r, idx,
                                         fix_len_idx(Len(r), idx, len)),
                   !.m_logok = FALSE]

\* set(const string &) and set(const char *)
set_ascii(t, ascii_text) ==
    [t EXCEPT !.m_chars = CopyRange(VectorResize(t.m_chars, Len(ascii_text)),
                                    ascii_text, 0, Len(ascii_text)),
              !.m_logok = FALSE]

set_data(t, data, idx, len) ==
    [t EXCEPT !.m_chars = CopyRange(VectorResize(t.m_chars, len), data, idx,
                                    fix_len_idx(Len(data), idx, len)),
              !.m_logok = FALSE]

resize(t, new_size) ==
    IF Len(t.m_chars) = new_size THEN t
    ELSE [t EXCEPT !.m_chars = VectorResize(t.m_chars, new_size),
                   !.m_logok = FALSE]

clear(t) == [t EXCEPT !.m_chars = <<>>, !.m_logok = FALSE]

insert_ch(t, idx, ch) ==
    [t EXCEPT !.m_chars = VectorInsert(t.m_chars, idx, <<ch>>),
              !.m_logok = FALSE]

insert_ref(t, idx, r) ==
    [t EXCEPT !.m_chars = VectorInsert(t.m_chars, idx, r), !.m_logok = FALSE]

append_ch(t, ch) == [t EXCEPT !.m_chars = Append(t.m_chars, ch), !.m_logok = FALSE]

append_ref(t, r) ==
    [t EXCEPT !.m_chars = VectorInsert(t.m_chars, Len(t.m_chars), r),
              !.m_logok = FALSE]

\* m_logok is left as it was
erase(t, idx, len) ==
    IF len = 0 THEN t
    ELSE [t EXCEPT !.m_chars = VectorErase(t.m_chars, idx, len)]

---------------------------------------------------------------------------
(* The comparator.                                                         *)

Min3(a, b, c) == SetMin({a, b, c})

\* case_order without the negation
case_order_raw(c1, c2) == c1 - c2

\* case_order returning the case-insensitive difference
case_order_none(c1, c2) == unc_tolower(c1) - unc_tolower(c2)

\* the same letter in different case: lower case goes first, the reverse of
\* the order of the code points
case_order(c1, c2) == -(c1 - c2)

\* length_order without the test of idx against len
length_order_unchecked(idx, len, len1, len2) ==
    IF len1 > len2 THEN len1 - len2 ELSE -(len2 - len1)

\* After the scan: equal within len, or the shorter one goes first.  The
\* conditional is evaluated in size_t and narrowed to int by the return,
\* which gives the signed difference back for sizes below 2^31.
length_order(idx, len, len1, len2) ==
    IF idx = len THEN 0
    ELSE IF len1 > len2 THEN len1 - len2 ELSE -(len2 - len1)

\* the for loop of compare, entered at idx
RECURSIVE compare_from(_, _, _, _)
compare_from(ref1, ref2, len, idx) ==
    IF idx < Min3(len, Len(ref1), Len(ref2))
    THEN IF ref1[idx + 1] = ref2[idx + 1]
         THEN compare_from(ref1, ref2, len, idx + 1)
         ELSE LET diff == unc_tolower(ref1[idx + 1]) - unc_tolower(ref2[idx + 1])
              IN  IF diff = 0 THEN case_order(ref1[idx + 1], ref2[idx + 1])
                  ELSE diff
    ELSE length_order(idx, len, Len(ref1), Len(ref2))

compare(ref1, ref2, len) == compare_from(ref1, ref2, len, 0)

---------------------------------------------------------------------------
(* Search.                                                                 *)

\* the inner loop of find and rfind: text matches m_chars at idx
match_at(chars, idx, text) ==
    \A ii \in 0..(Len(text) - 1) : chars[idx + ii + 1] = text[ii + 1]

\* the outer loop of find, entered at idx
RECURSIVE find_from(_, _, _, _)
find_from(chars, text, idx, midx) ==
    IF idx <= midx
    THEN IF match_at(chars, idx, text) THEN idx
         ELSE find_from(chars, text, idx + 1, midx)
    ELSE -1

\* find with its scan entered one element late
find_after(t, text, sidx) ==
    LET len == Len(text)
        si  == Len(t.m_chars)
    IN  IF si < len THEN -1
        ELSE find_from(t.m_chars, text, sidx + 1, si - len)

\* find(text, sidx): -1, or the index found
find(t, text, sidx) ==
    LET len == Len(text)
        si  == Len(t.m_chars)
    IN  IF si < len THEN -1
        ELSE find_from(t.m_chars, text, sidx, si - len)

\* The inner loop of rfind at idx when text may reach past the end of
\* m_chars (midx wrapped): the elements inside m_chars are compared, a read
\* past the end yields any value.
in_bounds_match(chars, idx, text) ==
    \A ii \in 0..(Len(text) - 1) :
        idx + ii < Len(chars) => chars[idx + ii + 1] = text[ii + 1]

\* The outer loop of rfind, entered at idx: the values it may return.  Every
\* read is inside m_chars when text is no longer than m_chars, and the set
\* has one element.
RECURSIVE rfind_from(_, _, _)
rfind_from(chars, text, idx) ==
    IF idx = 0 THEN {-1}
    ELSE IF idx + Len(text) <= Len(chars)
         THEN IF match_at(chars, idx, text) THEN {idx}
              ELSE rfind_from(chars, text, idx - 1)
         ELSE IF in_bounds_match(chars, idx, text)
              THEN {idx} \cup rfind_from(chars, text, idx - 1)
              ELSE rfind_from(chars, text, idx - 1)

rfind(t, text, sidx) ==
    LET len  == Len(text)
        midx == SizeT(Len(t.m_chars) - len)
    IN  rfind_from(t.m_chars, text, IF sidx > midx THEN midx ELSE sidx)

---------------------------------------------------------------------------
(* Replace.                                                                *)

\* replace_body with the search resumed where the pattern was found
replace_body_stay(t, fidx, rcnt, oldtext, newtext) ==
    LET erased   == erase(t, fidx, Len(oldtext))
        inserted == insert_ref(erased, fidx, newtext)
    IN  [obj  |-> inserted,
         fidx |-> find(inserted, oldtext, fidx),
         rcnt |-> rcnt + 1]

\* One pass of the while loop of replace, entered with fidx >= 0.  The index
\* the search resumes at is computed in size_t and wraps below zero.
replace_body(t, fidx, rcnt, oldtext, newtext) ==
    LET erased   == erase(t, fidx, Len(oldtext))
        inserted == insert_ref(erased, fidx, newtext)
    IN  [obj  |-> inserted,
         fidx |-> find(inserted, oldtext,
                       SizeT(fidx + Len(newtext) - Len(oldtext) + 1)),
         rcnt |-> rcnt + 1]

\* the while loop of replace, run to its end
RECURSIVE replace_loop(_, _, _, _, _)
replace_loop(t, fidx, rcnt, oldtext, newtext) ==
    IF fidx >= 0
    THEN LET n == replace_body(t, fidx, rcnt, oldtext, newtext)
         IN  replace_loop(n.obj, n.fidx, n.rcnt, oldtext, newtext)
    ELSE [obj |-> t, rcnt |-> rcnt]

replace(t, oldtext, newtext) ==
    replace_loop(t, find(t, oldtext, 0), 0, oldtext, newtext)

---------------------------------------------------------------------------
(* The buffer in use: any sequence of calls on one object.  The caller     *)
(* keeps to the contract of insert and erase (idx and idx + len inside the *)
(* buffer) and to buffers of at most MaxLen elements.                      *)

NoArgs == <<>>

NoLoc == <<>>

NoRet == <<>>

Idle == UNCHANGED <<args, pc, loc, ret>>

Fits(t) == Len(t.m_chars) <= MaxLen

Init ==
    /\ m_chars = NewText(<<>>).m_chars
    /\ m_logtext = NewText(<<>>).m_logtext
    /\ m_logok = NewText(<<>>).m_logok
    /\ args = NoArgs
    /\ pc = "idle"
    /\ loc = NoLoc
    /\ ret = NoRet

SetCh ==
    \E ch \in LogChars : Become(set_ch(This, ch)) /\ Idle

SetRef ==
    \E r \in Texts(LogChars, MaxLen) : Become(set_ref(This, r)) /\ Idle

SetRefRange ==
    \E r \in Texts(LogChars, MaxLen), idx \in 0..MaxLen, len \in 0..MaxLen :
        Become(set_ref_range(This, r, idx, len)) /\ Idle

SetAscii ==
    \E ascii_text \in Texts(LogChars, MaxLen) :
        Become(set_ascii(This, ascii_text)) /\ Idle

SetData ==
    \E data \in Texts(LogChars, MaxLen), idx \in 0..MaxLen, len \in 0..MaxLen :
        Become(set_data(This, data, idx, len)) /\ Idle

Resize ==
    \E new_size \in 0..MaxLen : Become(resize(This, new_size)) /\ Idle

Clear == Become(clear(This)) /\ Idle

InsertCh ==
    \E idx \in 0..Len(m_chars), ch \in LogChars :
        /\ Fits(insert_ch(This, idx, ch))
        /\ Become(insert_ch(This, idx, ch))
        /\ Idle

InsertRef ==
    \E idx \in 0..Len(m_chars), r \in Texts(LogChars, MaxLen) :
        /\ Fits(insert_ref(This, idx, r))
        /\ Become(insert_ref(This, idx, r))
        /\ Idle

AppendCh ==
    \E ch \in LogChars :
        /\ Fits(append_ch(This, ch))
        /\ Become(append_ch(This, ch))
        /\ Idle

AppendRef ==
    \E r \in Texts(LogChars, MaxLen) :
        /\ Fits(append_ref(This, r))
        /\ Become(append_ref(This, r))
        /\ Idle

Erase ==
    \E idx \in 0..Len(m_chars) :
        \E len \in 0..(Len(m_chars) - idx) :
            Become(erase(This, idx, len)) /\ Idle

Replace ==
    \E oldtext \in Texts(LogChars, MaxPat), newtext \in Texts(LogChars, MaxPat) :
        /\ Fits(replace(This, oldtext, newtext).obj)
        /\ Become(replace(This, oldtext, newtext).obj)
        /\ Idle

CStr == Become(c_str(This)) /\ Idle

Next ==
    \/ SetCh
    \/ SetRef
    \/ SetRefRange
    \/ SetAscii
    \/ SetData
    \/ Resize
    \/ Clear
    \/ InsertCh
    \/ InsertRef
    \/ AppendCh
    \/ AppendRef
    \/ Erase
    \/ Replace
    \/ CStr

Spec == Init /\ [][Next]_vars

---------------------------------------------------------------------------
(* One call of set(ref, idx, len) on a buffer with earlier contents.       *)

InitSet ==
    /\ m_chars \in Texts(SearchChars, MaxText)
    /\ m_logtext = <<>>
    /\ m_logok = FALSE
    /\ args \in [ref : Texts(SearchChars, MaxText),
                 idx : 0..(MaxText + 1),
                 len : 0..(MaxText + 1)]
    /\ pc = "call"
    /\ loc = NoLoc
    /\ ret = NoRet

SetRangeCall ==
    /\ pc = "call"
    /\ Become(set_ref_range(This, args.ref, args.idx, args.len))
    /\ pc' = "done"
    /\ UNCHANGED <<args, loc, ret>>

NextSet == SetRangeCall

SpecSet == InitSet /\ [][NextSet]_vars

---------------------------------------------------------------------------
(* One call of compare(ref1, ref2, len).                                   *)

InitCompare ==
    /\ m_chars = <<>>
    /\ m_logtext = <<>>
    /\ m_logok = FALSE
    /\ args \in [ref1 : Texts(CompareChars, MaxLen),
                 ref2 : Texts(CompareChars, MaxLen),
                 len  : 0..(MaxLen + 1)]
    /\ pc = "call"
    /\ loc = NoLoc
    /\ ret = NoRet

CompareCall ==
    /\ pc = "call"
    /\ ret' = compare(args.ref1, args.ref2, args.len)
    /\ pc' = "done"
    /\ UNCHANGED <<m_chars, m_logtext, m_logok, args, loc>>

NextCompare == CompareCall

SpecCompare == InitCompare /\ [][NextCompare]_vars

---------------------------------------------------------------------------
(* One call of find(text, sidx) or of rfind(text, sidx).                   *)

InitFind ==
    /\ m_chars \in Texts(SearchChars, MaxText)
    /\ m_logtext = <<>>
    /\ m_logok = FALSE
    /\ args \in [text : Texts(SearchChars, MaxPat), sidx : 0..(MaxText + 1)]
    /\ pc = "call"
    /\ loc = NoLoc
    /\ ret = NoRet

FindCall ==
    /\ pc = "call"
    /\ ret' = find(This, args.text, args.sidx)
    /\ pc' = "find_done"
    /\ UNCHANGED <<m_chars, m_logtext, m_logok, args, loc>>

RFindCall ==
    /\ pc = "call"
    /\ ret' \in rfind(This, args.text, args.sidx)
    /\ pc' = "rfind_done"
    /\ UNCHANGED <<m_chars, m_logtext, m_logok, args, loc>>

NextFind ==
    \/ FindCall
    \/ RFindCall

SpecFind == InitFind /\ [][NextFind]_vars

---------------------------------------------------------------------------
(* One call of replace(oldtext, newtext), a pass of its loop at a time.    *)
(* args.before is the buffer as the call found it.                         *)

InitReplace ==
    /\ m_chars \in Texts(SearchChars, MaxText)
    /\ m_logtext = <<>>
    /\ m_logok = FALSE
    /\ args \in { [oldtext |-> o, newtext |-> n, before |-> m_chars] :
                    o \in Texts(SearchChars, MaxPat),
                    n \in Texts(SearchChars, MaxPat) }
    /\ pc = "call"
    /\ loc = NoLoc
    /\ ret = NoRet

ReplaceEnter ==
    /\ pc = "call"
    /\ loc' = [fidx |-> find(This, args.oldtext, 0), rcnt |-> 0]
    /\ pc' = "loop"
    /\ UNCHANGED <<m_chars, m_logtext, m_logok, args, ret>>

ReplaceStep ==
    /\ pc = "loop"
    /\ loc.fidx >= 0
    /\ loc.rcnt < MaxIter
    /\ LET n == replace_body(This, loc.fidx, loc.rcnt, args.oldtext, args.newtext)
       IN  /\ Become(n.obj)
           /\ loc' = [fidx |-> n.fidx, rcnt |-> n.rcnt]
    /\ UNCHANGED <<args, pc, ret>>

ReplaceReturn ==
    /\ pc = "loop"
    /\ loc.fidx < 0
    /\ ret' = loc.rcnt
    /\ pc' = "done"
    /\ UNCHANGED <<m_chars, m_logtext, m_logok, args, loc>>

NextReplace ==
    \/ ReplaceEnter
    \/ ReplaceStep
    \/ ReplaceReturn

SpecReplace == InitReplace /\ [][NextReplace]_vars

\* the call runs: a step that can be taken is taken
FairReplace == SpecReplace /\ WF_vars(NextReplace)

---------------------------------------------------------------------------
(* insert(idx, ...) followed at once by erase(idx, the inserted length).   *)
(* args.before is the buffer before the insert.                            *)

InitRoundTrip ==
    /\ m_chars \in Texts(SearchChars, MaxText)
    /\ m_logtext = <<>>
    /\ m_logok = FALSE
    /\ args \in { [idx |-> i, ch |-> c, before |-> m_chars] :
                    i \in 0..Len(m_chars), c \in SearchChars }
           \cup { [idx |-> i, ref |-> r, before |-> m_chars] :
                    i \in 0..Len(m_chars), r \in Texts(SearchChars, MaxPat) }
    /\ pc = "call"
    /\ loc = NoLoc
    /\ ret = NoRet

InsertChCall ==
    /\ pc = "call"
    /\ "ch" \in DOMAIN args
    /\ Become(insert_ch(This, args.idx, args.ch))
    /\ loc' = [len |-> 1]
    /\ pc' = "inserted"
    /\ UNCHANGED <<args, ret>>

InsertRefCall ==
    /\ pc = "call"
    /\ "ref" \in DOMAIN args
    /\ Become(insert_ref(This, args.idx, args.ref))
    /\ loc' = [len |-> Len(args.ref)]
    /\ pc' = "inserted"
    /\ UNCHANGED <<args, ret>>

EraseCall ==
    /\ pc = "inserted"
    /\ Become(erase(This, args.idx, loc.len))
    /\ pc' = "done"
    /\ UNCHANGED <<args, loc, ret>>

NextRoundTrip ==
    \/ InsertChCall
    \/ InsertRefCall
    \/ EraseCall

SpecRoundTrip == InitRoundTrip /\ [][NextRoundTrip]_vars

---------------------------------------------------------------------------
(* The claims.                                                             *)

\* text occurs contiguously in chars at the (0-based) index i
Occurs(chars, i, text) ==
    /\ i >= 0
    /\ i + Len(text) <= Len(chars)
    /\ SubSeq(chars, i + 1, i + Len(text)) = text

Sign(x) == IF x < 0 THEN -1 ELSE IF x > 0 THEN 1 ELSE 0

\* C1: whenever m_logok is true, m_logtext is the display form of the
\* current m_chars followed by one zero byte; so every call that changes
\* m_chars, erase included, leaves m_logok false.
C1_DisplayCacheCurrent ==
    m_logok => m_logtext = Append(logtext_of(m_chars), 0)

\* The reference procedure of C2: scan left to right from pos; at the
\* leftmost occurrence of p at or after pos put r and go on right after it.
RECURSIVE RefReplace(_, _, _, _, _)
RefReplace(s, p, r, pos, count) ==
    LET occ == { i \in pos..(Len(s) - Len(p)) : Occurs(s, i, p) }
    IN  IF occ = {} THEN [buf |-> s, count |-> count]
        ELSE LET i == SetMin(occ)
             IN  RefReplace(SubSeq(s, 1, i) \o r \o SubSeq(s, i + Len(p) + 1, Len(s)),
                            p, r, i + Len(r), count + 1)

\* C2: for a non-empty pattern, replace leaves the buffer the reference
\* procedure leaves and returns the number of substitutions it makes.
C2_ReplaceIsReference ==
    (pc = "done" /\ args.oldtext # <<>>) =>
        LET want == RefReplace(args.before, args.oldtext, args.newtext, 0, 0)
        IN  /\ m_chars = want.buf
            /\ ret = want.count

\* C3: for a pattern no longer than the buffer, rfind returns the greatest
\* index <= min(sidx, size - len) at which the pattern occurs, index 0
\* included, and -1 only when there is none.  (Stated for the patterns of
\* one element or more, whose occurrences are not in doubt.)
C3_RFindGreatestIndex ==
    (pc = "rfind_done" /\ args.text # <<>> /\ Len(args.text) <= Len(m_chars)) =>
        LET top == IF args.sidx > Len(m_chars) - Len(args.text)
                   THEN Len(m_chars) - Len(args.text) ELSE args.sidx
            occ == { i \in 0..top : Occurs(m_chars, i, args.text) }
        IN  ret = IF occ = {} THEN -1 ELSE SetMax(occ)

\* C4: with len # ref.size, set(ref, idx, len) leaves exactly
\* ref[idx .. idx + min(len, ref.size - idx)), which is empty when
\* idx >= ref.size: nothing of the earlier contents, no padding.
C4_SetRangeIsSubSequence ==
    (pc = "done" /\ args.len # Len(args.ref)) =>
        m_chars = IF args.idx >= Len(args.ref) THEN <<>>
                  ELSE SubSeq(args.ref, args.idx + 1,
                              args.idx + SetMin({args.len, Len(args.ref) - args.idx}))

\* the positions (0-based) below m at which a and b differ
Differ(a, b, m) == { i \in 0..(m - 1) : a[i + 1] # b[i + 1] }

\* the compared prefix of the call
Prefix == Min3(args.len, Len(args.ref1), Len(args.ref2))

\* the call compares two buffers whose first difference, inside the compared
\* prefix, is one letter in two cases
CaseOnlyFirst ==
    /\ pc = "done"
    /\ Differ(args.ref1, args.ref2, Prefix) # {}
    /\ LET i == SetMin(Differ(args.ref1, args.ref2, Prefix))
       IN  unc_tolower(args.ref1[i + 1]) = unc_tolower(args.ref2[i + 1])

\* C5: when the first difference is the same letter in different case,
\* compare returns -(a[i] - b[i]): negative when a[i] is the lower case form,
\* positive when a[i] is the upper case form.
C5_CaseTieBreak ==
    CaseOnlyFirst =>
        LET i == SetMin(Differ(args.ref1, args.ref2, Prefix))
            x == args.ref1[i + 1]
            y == args.ref2[i + 1]
        IN  /\ ret = -(x - y)
            /\ x = unc_tolower(y) => ret < 0
            /\ y = unc_tolower(x) => ret > 0

C5_Witness ==
    /\ CaseOnlyFirst
    /\ args.ref1 = <<98, 97>>
    /\ args.ref2 = <<98, 65, 98>>
    /\ ret = -32

\* a and b are the same but for one position, inside the compared prefix,
\* where a holds the upper case letter and b its lower case form
UpperAgainstLower ==
    /\ pc = "done"
    /\ Len(args.ref1) = Len(args.ref2)
    /\ Cardinality(Differ(args.ref1, args.ref2, Len(args.ref1))) = 1
    /\ LET i == SetMin(Differ(args.ref1, args.ref2, Len(args.ref1)))
       IN  /\ i < args.len
           /\ args.ref1[i + 1] # args.ref2[i + 1]
           /\ args.ref2[i + 1] = unc_tolower(args.ref1[i + 1])

\* C6 as stated: compare is negative when a holds the upper case letter and
\* b the lower case one, as in compare("Apple", "apple", 5) < 0.
C6_UpperFirstNegative == UpperAgainstLower => ret < 0

\* C6 as amended: compare is positive when a holds the upper case letter
\* and b the lower case one, as in compare("Apple", "apple", 5) > 0.
C6_UpperFirstPositive == UpperAgainstLower => ret > 0

C6_Witness ==
    /\ UpperAgainstLower
    /\ args.ref1 = <<65, 98, 98>>
    /\ args.ref2 = <<97, 98, 98>>
    /\ args.len = 3

\* C7: when a and b agree on the compared prefix of m elements, compare
\* returns 0 if m = len, and else a value with the sign of a.size - b.size.
C7_EqualPrefix ==
    (pc = "done" /\ Differ(args.ref1, args.ref2, Prefix) = {}) =>
        IF Prefix = args.len THEN ret = 0
        ELSE Sign(ret) = Sign(Len(args.ref1) - Len(args.ref2))

C7_Witness ==
    /\ pc = "done"
    /\ args.ref1 = <<97, 98>>
    /\ args.ref2 = <<97, 98, 98>>
    /\ args.len = 3
    /\ ret < 0

\* C8: for a non-empty pattern, find returns the smallest index >= sidx at
\* which the pattern occurs, and -1 exactly when there is none.
C8_FindSmallestIndex ==
    (pc = "find_done" /\ args.text # <<>>) =>
        LET occ == { i \in args.sidx..(Len(m_chars) - Len(args.text)) :
                        Occurs(m_chars, i, args.text) }
        IN  ret = IF occ = {} THEN -1 ELSE SetMin(occ)

C8_Witness ==
    /\ pc = "find_done"
    /\ m_chars = <<97, 98, 97, 98>>
    /\ args.text = <<97, 98>>
    /\ args.sidx = 1
    /\ ret = 2

\* C9: replace returns, whatever the pattern and the replacement.
C9_ReplaceTerminates == <>(pc = "done")

\* the call has returned after two passes or more, with a replacement that
\* holds the pattern
C9_Witness ==
    /\ pc = "done"
    /\ ret >= 2
    /\ args.oldtext = <<97>>
    /\ args.newtext = <<98, 97>>

\* C10: insert(idx, t) and then erase(idx, length of t) leave m_chars as it
\* was before the insert.
C10_InsertEraseRoundTrip == pc = "done" => m_chars = args.before

C10_Witness ==
    /\ pc = "done"
    /\ "ref" \in DOMAIN args
    /\ Len(args.ref) = 2
    /\ args.idx = 1
    /\ Len(args.before) = 3

===========================================================================
